---- MODULE Spec2Model ----
(***************************************************************************)
(* Model of the field-data and weather-data pipelines:                     *)
(*   src/data_ingestion.py         create_db_engine, query_data,           *)
(*                                 read_from_web_CSV                       *)
(*   src/field_data_processor.py   FieldDataProcessor                      *)
(*   src/weather_data_processor.py WeatherDataProcessor                    *)
(*                                                                         *)
(* A DataFrame is a record [columns, data]: columns is the sequence of     *)
(* labels, data[j] the sequence of cells of column j (all of one length).  *)
(* A cell is [num |-> n], [str |-> s] or [null |-> TRUE]; Python's None is *)
(* [none |-> TRUE].  An exception is the name of its class.                *)
(*                                                                         *)
(* field_data_processor.py uses create_db_engine, query_data,              *)
(* read_from_web_CSV and logging without importing them; they are taken to *)
(* be the functions of data_ingestion.py and the standard logging module.  *)
(* pandas, re and SQLAlchemy calls are modelled by their documented        *)
(* behaviour; means are exact fractions, not floating-point numbers.       *)
(***************************************************************************)
EXTENDS Integers, Sequences, FiniteSets, TLC

\* ------------------------------------------------------------------ bounds

\* rows a query or a CSV of field data returns, at most
MaxRows == 2
\* rows the field-to-station mapping CSV holds, at most
MaxMapRows == 2
\* calls the caller makes on one FieldDataProcessor, at most
MaxCalls == 3
\* rows the weather CSV holds, at most
MaxWRows == 3
\* calls the caller makes on one WeatherDataProcessor, at most
MaxWCalls == 3
\* characters of a message passed to extract_measurement, at most
MaxMsgLen == 4

\* ------------------------------------------------------------------ values

None == [none |-> TRUE]
Null == [null |-> TRUE]
Num(n) == [num |-> n]
Str(s) == [str |-> s]
IsNum(c) == DOMAIN c = {"num"}
IsStr(c) == DOMAIN c = {"str"}
NoError == "None"

SeqsUpTo(S, n) == UNION {[1..k -> S] : k \in 0..n}

RECURSIVE SumSeq(_)
SumSeq(s) == IF s = <<>> THEN 0 ELSE Head(s) + SumSeq(Tail(s))

\* the subsequence of s at the positions where keep holds, in order
RECURSIVE SelectIdx(_, _, _)
SelectIdx(s, keep, i) ==
    IF i > Len(s) THEN <<>>
    ELSE (IF keep[i] THEN <<s[i]>> ELSE <<>>) \o SelectIdx(s, keep, i + 1)

RECURSIVE Flatten(_)
Flatten(ss) == IF ss = <<>> THEN <<>> ELSE Head(ss) \o Flatten(Tail(ss))

\* ------------------------------------------------------------- DataFrames

NRows(d) == IF d.columns = <<>> THEN 0 ELSE Len(d.data[1])
HasColumn(d, name) == \E j \in 1..Len(d.columns) : d.columns[j] = name
\* df[name]: the first column labelled name
ColumnIndex(d, name) ==
    CHOOSE j \in 1..Len(d.columns) :
        /\ d.columns[j] = name
        /\ \A k \in 1..(j - 1) : d.columns[k] # name
Column(d, name) == d.data[ColumnIndex(d, name)]
\* df[name] = cells: replaces the column when the label exists, appends it otherwise
SetColumn(d, name, cells) ==
    IF HasColumn(d, name)
    THEN [d EXCEPT !.data[ColumnIndex(d, name)] = cells]
    ELSE [columns |-> Append(d.columns, name), data |-> Append(d.data, cells)]
\* dict.get(key, default) of a dict given as a sequence of <<key, value>>
\* pairs in insertion order (a later pair with the same key overrides)
RECURSIVE DictGet(_, _, _)
DictGet(pairs, key, default) ==
    IF pairs = <<>> THEN default
    ELSE LET last == pairs[Len(pairs)]
         IN  IF last[1] = key THEN last[2]
             ELSE DictGet(SubSeq(pairs, 1, Len(pairs) - 1), key, default)

\* DataFrame.rename(columns=mapper): every label replaced at once by
\* mapper.get(label, label); labels the mapper does not name are kept and
\* keys that are no label are ignored (errors='ignore')
DataFrameRename(d, mapper) ==
    [d EXCEPT !.columns = [j \in 1..Len(d.columns) |->
                              DictGet(mapper, d.columns[j], d.columns[j])]]

\* --------------------------------------------------------------- exceptions

\* the direct base class of an exception class ("" above Exception)
ExcParent(e) ==
    CASE e = "ModuleNotFoundError" -> "ImportError"
      [] e = "UnboundLocalError" -> "NameError"
      [] e = "EmptyDataError" -> "ValueError"
      [] e = "Exception" -> ""
      [] OTHER -> "Exception"
\* isinstance(e, cls), as an except clause decides it
RECURSIVE IsInstance(_, _)
IsInstance(e, cls) ==
    IF e = "" THEN FALSE
    ELSE IF e = cls THEN TRUE
    ELSE IsInstance(ExcParent(e), cls)

Returned(v) == [val |-> v, exc |-> NoError, inner |-> NoError]
\* exc reaches the caller; inner is what the body of the try raised
Raised(e, in) == [val |-> None, exc |-> e, inner |-> in]

\* ------------------------------------------------- src/data_ingestion.py

\* what create_engine / engine.connect can do
EngineOutcomes == {"ok", "ImportError", "ModuleNotFoundError", "OperationalError"}

\* the ImportError handler: `except ImportError:` binds no name and then
\* runs `raise e`; e is a local of the function (bound only by the other
\* handler), so the statement raises UnboundLocalError
ImportErrorHandler(caught) == "UnboundLocalError"
\* the generic handler: `except Exception as e: ... raise e`
ReraiseHandler(caught) == caught

create_db_engine(outcome) ==
    IF outcome = "ok" THEN Returned([url |-> "db_path"])
    ELSE IF IsInstance(outcome, "ImportError")
         THEN Raised(ImportErrorHandler(outcome), outcome)
         ELSE Raised(ReraiseHandler(outcome), outcome)

\* DataFrame.empty: some axis has length 0
DataFrameEmpty(d) == d.columns = <<>> \/ NRows(d) = 0

\* outcome is [exc |-> e] (connect or read_sql_query raised e) or [df |-> d]
query_data(eng, outcome) ==
    LET inner == IF "exc" \in DOMAIN outcome THEN outcome.exc
                 ELSE IF DataFrameEmpty(outcome.df) THEN "ValueError"
                 ELSE NoError
    IN  IF inner = NoError THEN Returned(outcome.df)
        ELSE IF IsInstance(inner, "ValueError")
             THEN Raised(ReraiseHandler(inner), inner)
             ELSE Raised(ReraiseHandler(inner), inner)

\* outcome is [exc |-> e] (pd.read_csv raised e) or [df |-> d]
read_from_web_CSV(outcome) ==
    IF "exc" \in DOMAIN outcome
    THEN IF IsInstance(outcome.exc, "EmptyDataError")
         THEN Raised(ReraiseHandler(outcome.exc), outcome.exc)
         ELSE Raised(ReraiseHandler(outcome.exc), outcome.exc)
    ELSE Returned(outcome.df)

\* ------------------------------------------------------------ input data

\* rows of the field table: identifier, elevation, crop type, yield
SourceRows ==
    { [fid |-> 1, elev |-> -5, crop |-> "maize", yld |-> 7],
      [fid |-> 2, elev |-> 10, crop |-> "Maize", yld |-> 8] }

PhysCell(row, phys) ==
    CASE phys = "fid"  -> Num(row.fid)
      [] phys = "elev" -> Num(row.elev)
      [] phys = "crop" -> Str(row.crop)
      [] phys = "yld"  -> Num(row.yld)
      [] phys = "e1"   -> Str("x")
      [] phys = "e2"   -> Str("y")

TempBase == "__temp_name_for_swap__"

\* how the query labels the data it returns: <<label, data>> per column
Layouts ==
    { << <<"Field_ID", "fid">>, <<"Elevation", "elev">>,
         <<"Annual_yield", "crop">>, <<"Crop_type", "yld">> >>,
      << <<"Field_ID", "fid">>, <<TempBase \o "_", "e2">>,
         <<"Elevation", "elev">>, <<"Annual_yield", "crop">>,
         <<"Crop_type", "yld">>, <<TempBase, "e1">> >>,
      << <<"Field_ID", "fid">>, <<"Elevation", "elev">>,
         <<"Annual_yield", "crop">> >>,
      << <<"Field_ID", "fid">>, <<"Elevation", "elev">>,
         <<"Crop_type", "crop">> >>,
      << <<"Elevation", "elev">>, <<"Annual_yield", "crop">>,
         <<"Crop_type", "yld">> >> }

Table(layout, rows) ==
    [columns |-> [j \in 1..Len(layout) |-> layout[j][1]],
     data    |-> [j \in 1..Len(layout) |->
                    [i \in 1..Len(rows) |-> PhysCell(rows[i], layout[j][2])]]]

DbErrors == {"OperationalError"}
QueryOutcomes ==
    {[exc |-> e] : e \in DbErrors}
    \cup {[df |-> Table(l, rows)] :
            l \in Layouts, rows \in SeqsUpTo(SourceRows, MaxRows)}

\* rows of the field-to-station mapping CSV
MapRows == { <<1, "S1">>, <<2, "S2">>, <<1, "S3">> }
MapLayouts == { <<"Field_ID", "Weather_station_ID">>,
                <<"Field", "Weather_station_ID">> }
MapTable(l, rows) ==
    [columns |-> l,
     data    |-> << [i \in 1..Len(rows) |-> Num(rows[i][1])],
                    [i \in 1..Len(rows) |-> Str(rows[i][2])] >>]
CsvErrors == {"EmptyDataError", "HTTPError"}
MapCsvOutcomes ==
    {[exc |-> e] : e \in CsvErrors}
    \cup {[df |-> MapTable(l, rows)] :
            l \in MapLayouts, rows \in SeqsUpTo(MapRows, MaxMapRows)}

\* config_params['columns_to_rename']: its first key and first value
SwapConfigs == { <<"Annual_yield", "Crop_type">>,
                 <<"Crop_type", "Annual_yield">>,
                 <<TempBase, "Crop_type">> }
\* config_params['values_to_rename'], as <<key, value>> pairs
RenameMaps == { << <<Str("Maize"), Str("maize")>> >>,
                << <<Str("Maize"), Str("maize")>>, <<Str("maize"), Str("corn")>> >> }

\* ------------------------------------------------------------------ state

VARIABLES
    \* FieldDataProcessor: self.columns_to_rename, self.values_to_rename,
    \* self.df, self.engine
    columns_to_rename, values_to_rename, df, engine,
    \* the caller of the FieldDataProcessor: "idle" between calls, "process"
    \* inside process(), "failed" once an exception has reached it
    pc,
    \* inside process(): the statement of its body that runs next
    pstep,
    \* the exception that reached the caller, and the exception first raised
    \* inside a data_ingestion function (NoError when none)
    err, inner,
    \* the methods process() has called so far, and what process() returned
    plog, ret,
    \* calls made so far
    calls,
    \* the last two method invocations: [op, args, before, exc]
    hist,
    \* WeatherDataProcessor: self.patterns, self.weather_df
    patterns, weather_df,
    \* its caller, as above
    wpc, wstep, werr, winner, wlog, wret, wcalls, whist,
    \* what the last calculate_means() returned
    means

fieldVars == <<columns_to_rename, values_to_rename, df, engine, pc, pstep,
               err, inner, plog, ret, calls, hist>>
weatherVars == <<patterns, weather_df, wpc, wstep, werr, winner, wlog, wret,
                 wcalls, whist, means>>
vars == <<fieldVars, weatherVars>>

\* --------------------------------------------- src/field_data_processor.py

\* the outcome of a method: the object's fields after it, the exception
\* that left it (NoError: it returned) and the adapter's own exception
Outcome(d, eng, e, in) == [df |-> d, engine |-> eng, exc |-> e, inner |-> in]

Field_ingest_sql_data(engineOutcome, queryOutcome) ==
    LET e == create_db_engine(engineOutcome)
    IN  IF e.exc # NoError THEN Outcome(df, engine, e.exc, e.inner)
        ELSE LET q == query_data(e.val, queryOutcome)
             IN  IF q.exc # NoError THEN Outcome(df, e.val, q.exc, q.inner)
                 ELSE Outcome(q.val, e.val, NoError, NoError)

\* the while loop: lengthen the placeholder until no column has that label
RECURSIVE TempName(_, _)
TempName(d, name) ==
    IF HasColumn(d, name) THEN TempName(d, name \o "_") ELSE name

\* the swap with the placeholder used as it is, whatever columns exist
NoTempSwap(d, column1, column2) ==
    DataFrameRename(
        DataFrameRename(d, << <<column1, TempBase>>, <<column2, column1>> >>),
        << <<TempBase, column2>> >>)
\* the two renames of the swap, on DataFrame d
SwapLabels(d, column1, column2) ==
    LET temp_name == TempName(d, TempBase)
        first == DataFrameRename(d, << <<column1, temp_name>>,
                                       <<column2, column1>> >>)
    IN  DataFrameRename(first, << <<temp_name, column2>> >>)

Field_rename_columns ==
    IF df = None THEN Outcome(df, engine, "AttributeError", NoError)
    ELSE Outcome(SwapLabels(df, columns_to_rename[1], columns_to_rename[2]),
                 engine, NoError, NoError)

AbsCell(c) == IF IsNum(c) /\ c.num < 0 THEN Num(-c.num) ELSE c
\* lambda crop: self.values_to_rename.get(crop, crop)
RenameValue(c) == DictGet(values_to_rename, c, c)

\* apply_corrections with its two parameters taken in the other order
SwappedParams_apply_corrections(column_name, abs_column) ==
    IF df = None THEN Outcome(df, engine, "TypeError", NoError)
    ELSE IF ~HasColumn(df, column_name)
         THEN Outcome(df, engine, "KeyError", NoError)
    ELSE IF \E i \in 1..NRows(df) : IsStr(Column(df, column_name)[i])
         THEN Outcome(df, engine, "TypeError", NoError)
    ELSE LET absd == SetColumn(df, column_name,
                        [i \in 1..NRows(df) |-> AbsCell(Column(df, column_name)[i])])
         IN  IF ~HasColumn(absd, abs_column)
             THEN Outcome(absd, engine, "KeyError", NoError)
             ELSE Outcome(SetColumn(absd, abs_column,
                            [i \in 1..NRows(absd) |->
                                RenameValue(Column(absd, abs_column)[i])]),
                          engine, NoError, NoError)
\* apply_corrections(column_name, abs_column): the first statement takes the
\* absolute value of abs_column in place, the second maps column_name
Field_apply_corrections(column_name, abs_column) ==
    IF df = None THEN Outcome(df, engine, "TypeError", NoError)
    ELSE IF ~HasColumn(df, abs_column)
         THEN Outcome(df, engine, "KeyError", NoError)
    ELSE IF \E i \in 1..NRows(df) : IsStr(Column(df, abs_column)[i])
         THEN Outcome(df, engine, "TypeError", NoError)
    ELSE LET absd == SetColumn(df, abs_column,
                        [i \in 1..NRows(df) |-> AbsCell(Column(df, abs_column)[i])])
         IN  IF ~HasColumn(absd, column_name)
             THEN Outcome(absd, engine, "KeyError", NoError)
             ELSE Outcome(SetColumn(absd, column_name,
                            [i \in 1..NRows(absd) |->
                                RenameValue(Column(absd, column_name)[i])]),
                          engine, NoError, NoError)

\* a merge that keeps one right row per left row
FirstMatchOnly(left, right, key, i) ==
    LET ks == {k \in 1..NRows(right) :
                  Column(right, key)[k] = Column(left, key)[i]}
    IN  IF ks = {} THEN <<>>
        ELSE << <<i, CHOOSE k \in ks : \A k2 \in ks : k <= k2>> >>
\* the pairs <<i, k>> of an inner merge on key: row i of left and row k of
\* right hold the same key; in the order of left's rows, then right's
MatchesOf(left, right, key, i) ==
    SelectIdx([k \in 1..NRows(right) |-> <<i, k>>],
              [k \in 1..NRows(right) |->
                  Column(right, key)[k] = Column(left, key)[i]], 1)
MergePairs(left, right, key) ==
    Flatten([i \in 1..NRows(left) |-> MatchesOf(left, right, key, i)])

\* a label both frames carry (other than the key) gets a suffix
MergeLabel(label, other, key, suffix) ==
    IF label # key /\ HasColumn(other, label) THEN label \o suffix ELSE label

\* DataFrame.merge(right, on=key), how='inner'
DataFrameMerge(left, right, key) ==
    LET pairs == MergePairs(left, right, key)
        rcols == SelectIdx([j \in 1..Len(right.columns) |-> j],
                           [j \in 1..Len(right.columns) |->
                               right.columns[j] # key], 1)
    IN  [columns |->
            [j \in 1..Len(left.columns) |->
                MergeLabel(left.columns[j], right, key, "_x")]
            \o [j \in 1..Len(rcols) |->
                MergeLabel(right.columns[rcols[j]], left, key, "_y")],
         data |->
            [j \in 1..Len(left.columns) |->
                [p \in 1..Len(pairs) |-> left.data[j][pairs[p][1]]]]
            \o [j \in 1..Len(rcols) |->
                [p \in 1..Len(pairs) |-> right.data[rcols[j]][pairs[p][2]]]]]

Field_weather_station_mapping(csvOutcome) ==
    LET m == read_from_web_CSV(csvOutcome)
    IN  IF m.exc # NoError THEN Outcome(df, engine, m.exc, m.inner)
        ELSE IF df = None THEN Outcome(df, engine, "AttributeError", NoError)
        ELSE IF ~HasColumn(df, "Field_ID") \/ ~HasColumn(m.val, "Field_ID")
             THEN Outcome(df, engine, "KeyError", NoError)
        ELSE Outcome(DataFrameMerge(df, m.val, "Field_ID"), engine,
                     NoError, NoError)

\* a body of process() that corrects before it swaps
SwappedProcessSteps ==
    << "ingest_sql_data", "apply_corrections", "rename_columns",
       "weather_station_mapping" >>
\* the body of process(): the methods it calls, in order
ProcessSteps ==
    << "ingest_sql_data", "rename_columns", "apply_corrections",
       "weather_station_mapping" >>

\* ------------------------------------------ the FieldDataProcessor's caller

\* positional arguments a caller passes to apply_corrections
CorrectionArgs == { <<"Crop_type", "Elevation">>, <<"Elevation", "Crop_type">> }

Last2(h) == IF Len(h) > 2 THEN SubSeq(h, Len(h) - 1, Len(h)) ELSE h
Entry(op, args, out) == [op |-> op, args |-> args, before |-> df, exc |-> out.exc]

\* the effect of one method invocation on the object and on the caller
FieldEffect(op, args, out) ==
    /\ df' = out.df
    /\ engine' = out.engine
    /\ err' = out.exc
    /\ inner' = out.inner
    /\ hist' = Last2(Append(hist, Entry(op, args, out)))
    /\ UNCHANGED <<columns_to_rename, values_to_rename, weatherVars>>

\* a method called directly: an exception ends the caller, and so does the
\* call numbered last (the station mapping and process() are last calls)
FieldCall(op, args, out, last) ==
    /\ pc = "idle"
    /\ calls < MaxCalls
    /\ calls' = IF last THEN MaxCalls ELSE calls + 1
    /\ pc' = IF out.exc = NoError THEN "idle" ELSE "failed"
    /\ FieldEffect(op, args, out)
    /\ UNCHANGED <<pstep, plog, ret>>

FieldIngest ==
    /\ calls = 0
    /\ \E eo \in EngineOutcomes, qo \in QueryOutcomes :
          FieldCall("ingest_sql_data", <<>>, Field_ingest_sql_data(eo, qo), FALSE)

FieldRename ==
    FieldCall("rename_columns", <<>>, Field_rename_columns, FALSE)

FieldCorrect ==
    \E a \in CorrectionArgs :
        FieldCall("apply_corrections", a, Field_apply_corrections(a[1], a[2]),
                  FALSE)

FieldMap ==
    \E csv \in MapCsvOutcomes :
        FieldCall("weather_station_mapping", <<csv>>,
                  Field_weather_station_mapping(csv), TRUE)

\* process() is entered
FieldProcessCall ==
    /\ pc = "idle"
    /\ calls = 0
    /\ calls' = MaxCalls
    /\ pc' = "process"
    /\ pstep' = 1
    /\ plog' = <<>>
    /\ ret' = None
    /\ UNCHANGED <<columns_to_rename, values_to_rename, df, engine, err,
                   inner, hist, weatherVars>>

\* one statement of process(): an exception leaves process() at once
ProcessDo(op, args, out) ==
    /\ plog' = Append(plog, op)
    /\ pstep' = pstep + 1
    /\ pc' = IF out.exc = NoError THEN "process" ELSE "failed"
    /\ FieldEffect(op, args, out)
    /\ UNCHANGED <<ret, calls>>

FieldProcessStep ==
    /\ pc = "process"
    /\ pstep <= Len(ProcessSteps)
    /\ LET op == ProcessSteps[pstep]
       IN  \/ /\ op = "ingest_sql_data"
              /\ \E eo \in EngineOutcomes, qo \in QueryOutcomes :
                    ProcessDo(op, <<>>, Field_ingest_sql_data(eo, qo))
           \/ /\ op = "rename_columns"
              /\ ProcessDo(op, <<>>, Field_rename_columns)
           \/ /\ op = "apply_corrections"
              /\ ProcessDo(op, <<"Crop_type", "Elevation">>,
                           Field_apply_corrections("Crop_type", "Elevation"))
           \/ /\ op = "weather_station_mapping"
              /\ \E csv \in MapCsvOutcomes :
                    ProcessDo(op, <<csv>>, Field_weather_station_mapping(csv))

\* return self.df
FieldProcessReturn ==
    /\ pc = "process"
    /\ pstep = Len(ProcessSteps) + 1
    /\ ret' = df
    /\ pc' = "idle"
    /\ UNCHANGED <<columns_to_rename, values_to_rename, df, engine, pstep,
                   err, inner, plog, calls, hist, weatherVars>>

WeatherParked ==
    /\ patterns = <<>>
    /\ weather_df = None
    /\ wpc = "idle"
    /\ wstep = 0
    /\ werr = NoError
    /\ winner = NoError
    /\ wlog = <<>>
    /\ wret = None
    /\ wcalls = 0
    /\ whist = <<>>
    /\ means = None

\* FieldDataProcessor.__init__
FieldInit ==
    /\ columns_to_rename \in SwapConfigs
    /\ values_to_rename \in RenameMaps
    /\ df = None
    /\ engine = None
    /\ pc = "idle"
    /\ pstep = 0
    /\ err = NoError
    /\ inner = NoError
    /\ plog = <<>>
    /\ ret = None
    /\ calls = 0
    /\ hist = <<>>
    /\ WeatherParked

FieldNext ==
    \/ FieldIngest
    \/ FieldRename
    \/ FieldCorrect
    \/ FieldMap
    \/ FieldProcessCall
    \/ FieldProcessStep
    \/ FieldProcessReturn

FieldSpec == FieldInit /\ [][FieldNext]_vars

\* -------------------------------------------- src/weather_data_processor.py

\* A message is a sequence of characters.  A pattern is a sequence of
\* alternatives joined by |, each a group of digits followed by a unit
\* character: [min |-> 1, unit |-> "m"] is (\d+)m, [min |-> 0, ...] is (\d*)m.
Digits == {"0", "1", "2"}
Units == {"m", "C"}
Alphabet == Digits \cup Units \cup {"x"}
DigitValue(c) == CASE c = "0" -> 0 [] c = "1" -> 1 [] c = "2" -> 2

\* the length of the run of digits of msg that starts at position i
RECURSIVE DigitRun(_, _)
DigitRun(msg, i) ==
    IF i <= Len(msg) /\ msg[i] \in Digits THEN 1 + DigitRun(msg, i + 1) ELSE 0

\* the alternative matched at position i: greedy digits, then the unit
AltMatchesAt(alt, msg, i) ==
    LET k == DigitRun(msg, i)
    IN  /\ k >= alt.min
        /\ i + k <= Len(msg)
        /\ msg[i + k] = alt.unit

\* match.groups() of the pattern matched at i: one group per alternative,
\* [text |-> characters] for the one that matched and None for the others
GroupsAt(alts, msg, i) ==
    LET a == CHOOSE a \in 1..Len(alts) :
                /\ AltMatchesAt(alts[a], msg, i)
                /\ \A b \in 1..(a - 1) : ~AltMatchesAt(alts[b], msg, i)
    IN  [g \in 1..Len(alts) |->
            IF g = a THEN [text |-> SubSeq(msg, i, i + DigitRun(msg, i) - 1)]
            ELSE None]

MatchesAt(alts, msg, i) == \E a \in 1..Len(alts) : AltMatchesAt(alts[a], msg, i)

\* re.search(pattern, message): [groups |-> match.groups()] of the leftmost
\* match, or None
ReSearch(alts, msg) ==
    LET starts == {i \in 1..Len(msg) : MatchesAt(alts, msg, i)}
    IN  IF starts = {} THEN None
        ELSE [groups |->
                GroupsAt(alts, msg,
                         CHOOSE i \in starts : \A i2 \in starts : i <= i2)]

\* next((x for x in match.groups() if x is not None))
RECURSIVE FirstNotNone(_)
FirstNotNone(groups) ==
    IF groups = <<>> THEN None
    ELSE IF Head(groups) # None THEN Head(groups)
    ELSE FirstNotNone(Tail(groups))

\* float(text) of a text of digits
RECURSIVE DecimalOf(_)
DecimalOf(text) ==
    IF text = <<>> THEN 0
    ELSE 10 * DecimalOf(SubSeq(text, 1, Len(text) - 1)) + DigitValue(text[Len(text)])

\* a loop that lets a later matching pattern override an earlier one
LastMatchingPattern(pats, msg) ==
    LET hits == {q \in 1..Len(pats) : ReSearch(pats[q].alts, msg) # None}
    IN  IF hits = {} THEN 0 ELSE CHOOSE q \in hits : \A q2 \in hits : q >= q2
\* the for loop of extract_measurement: the position in self.patterns of the
\* pattern the loop returns at, 0 when it runs to its end
FirstMatchingPattern(pats, msg) ==
    LET hits == {q \in 1..Len(pats) : ReSearch(pats[q].alts, msg) # None}
    IN  IF hits = {} THEN 0 ELSE CHOOSE q \in hits : \A q2 \in hits : q <= q2

Weather_extract_measurement(message) ==
    LET q == FirstMatchingPattern(patterns, message)
    IN  IF q = 0 THEN Returned(<<None, None>>)
        ELSE LET group == FirstNotNone(ReSearch(patterns[q].alts, message).groups)
             IN  IF group = None THEN Raised("StopIteration", NoError)
                 ELSE IF group.text = <<>> THEN Raised("ValueError", NoError)
                 ELSE Returned(<<Str(patterns[q].label),
                                 Num(DecimalOf(group.text))>>)

\* the outcome of a method: self.weather_df after it, the exception that
\* left it, the adapter's own exception, and the value returned
WOutcome(d, e, in, v) == [df |-> d, exc |-> e, inner |-> in, result |-> v]

Weather_weather_station_mapping(csvOutcome) ==
    LET m == read_from_web_CSV(csvOutcome)
    IN  IF m.exc # NoError THEN WOutcome(weather_df, m.exc, m.inner, None)
        ELSE WOutcome(m.val, NoError, NoError, None)

\* None as a cell of a column
CellOf(v) == IF v = None THEN Null ELSE v

\* zip(*result): one tuple per position of the rows' tuples
ZipStar(result) ==
    IF result = <<>> THEN <<>>
    ELSE [c \in 1..Len(result[1]) |-> [i \in 1..Len(result) |-> result[i][c]]]

Weather_process_messages ==
    IF weather_df = None THEN WOutcome(weather_df, NoError, NoError, weather_df)
    ELSE IF ~HasColumn(weather_df, "Message")
         THEN WOutcome(weather_df, "KeyError", NoError, None)
    ELSE LET msgs == Column(weather_df, "Message")
             result == [i \in 1..Len(msgs) |-> Weather_extract_measurement(msgs[i])]
             bad == {i \in 1..Len(msgs) : result[i].exc # NoError}
         IN  IF bad # {}
             THEN WOutcome(weather_df,
                           result[CHOOSE i \in bad : \A i2 \in bad : i <= i2].exc,
                           NoError, None)
             ELSE LET zipped == ZipStar([i \in 1..Len(msgs) |-> result[i].val])
                  IN  IF Len(zipped) # 2
                      THEN WOutcome(weather_df, "ValueError", NoError, None)
                      ELSE LET withM == SetColumn(weather_df, "Measurement",
                                   [i \in 1..Len(msgs) |-> CellOf(zipped[1][i])])
                               withV == SetColumn(withM, "Value",
                                   [i \in 1..Len(msgs) |-> CellOf(zipped[2][i])])
                           IN  WOutcome(withV, NoError, NoError, withV)

\* the mean of a non-empty sequence of integers, as a fraction in lowest terms
RECURSIVE Gcd(_, _)
Gcd(a, b) == IF b = 0 THEN a ELSE Gcd(b, a % b)
MeanOf(values) ==
    LET total == SumSeq(values)
        g == Gcd(total, Len(values))
    IN  [mean |-> total \div g, over |-> Len(values) \div g]

\* group keys with the null keys kept (dropna=False)
GroupKeysWithNull(d, k1, k2) ==
    {<<Column(d, k1)[i], Column(d, k2)[i]>> : i \in 1..NRows(d)}
\* groupby(by=[k1, k2]): the keys of the groups; rows with a null key belong
\* to no group (dropna=True)
GroupKeys(d, k1, k2) ==
    {<<Column(d, k1)[i], Column(d, k2)[i]>> :
        i \in {r \in 1..NRows(d) : Column(d, k1)[r] # Null /\ Column(d, k2)[r] # Null}}
GroupRows(d, k1, k2, key) ==
    {i \in 1..NRows(d) : Column(d, k1)[i] = key[1] /\ Column(d, k2)[i] = key[2]}

\* the cells of a column at the rows of a set, in row order
CellsAt(cells, rows) ==
    SelectIdx(cells, [i \in 1..Len(cells) |-> i \in rows], 1)

\* ...['Value'].mean() of one group: null values are skipped
GroupMean(d, rows) ==
    LET vals == CellsAt(Column(d, "Value"),
                        {i \in rows : Column(d, "Value")[i] # Null})
    IN  IF vals = <<>> THEN Null
        ELSE MeanOf([i \in 1..Len(vals) |-> vals[i].num])

\* Series.unstack(): the first key labels the rows, the second the columns;
\* a pair with no group holds NaN
Unstack(keys, meanOf) ==
    LET idx == {k[1] : k \in keys}
        cols == {k[2] : k \in keys}
    IN  [index |-> idx, columns |-> cols,
         cell |-> [k \in idx \X cols |-> IF k \in keys THEN meanOf[k] ELSE Null]]

Weather_calculate_means ==
    IF weather_df = None THEN WOutcome(weather_df, NoError, NoError, None)
    ELSE IF \/ ~HasColumn(weather_df, "Weather_station_ID")
            \/ ~HasColumn(weather_df, "Measurement")
            \/ ~HasColumn(weather_df, "Value")
         THEN WOutcome(weather_df, "KeyError", NoError, None)
    ELSE LET keys == GroupKeys(weather_df, "Weather_station_ID", "Measurement")
             meanOf == [k \in keys |->
                          GroupMean(weather_df,
                                    GroupRows(weather_df, "Weather_station_ID",
                                              "Measurement", k))]
         IN  WOutcome(weather_df, NoError, NoError, Unstack(keys, meanOf))

\* the body of process(): the methods it calls, in order
WeatherProcessSteps == << "weather_station_mapping", "process_messages" >>

\* ----------------------------------------------------- weather input data

\* config_params['regex_patterns'], in insertion order
PatternConfigs ==
    { << [label |-> "Rainfall", alts |-> << [min |-> 1, unit |-> "m"] >>],
         [label |-> "Temperature", alts |-> << [min |-> 1, unit |-> "C"] >>] >>,
      << [label |-> "Temperature", alts |-> << [min |-> 1, unit |-> "C"] >>],
         [label |-> "Rainfall", alts |-> << [min |-> 1, unit |-> "m"] >>] >>,
      << [label |-> "Level", alts |-> << [min |-> 1, unit |-> "C"],
                                         [min |-> 0, unit |-> "m"] >>],
         [label |-> "Rainfall", alts |-> << [min |-> 1, unit |-> "m"] >>] >> }

\* messages of the weather CSV
CsvMessages ==
    { <<"1", "0", "m">>, <<"2", "0", "m">>, <<"2", "C">>,
      <<"x", "x">>, <<"x", "m">> }
Stations == {"S1", "S2"}
WeatherRows == {[station |-> st, message |-> m] : st \in Stations, m \in CsvMessages}
WeatherLayouts == { <<"Weather_station_ID", "Message">>,
                    <<"Weather_station_ID", "Text">> }
WeatherTable(l, rows) ==
    [columns |-> l,
     data    |-> << [i \in 1..Len(rows) |-> Str(rows[i].station)],
                    [i \in 1..Len(rows) |-> rows[i].message] >>]
WeatherCsvOutcomes ==
    {[exc |-> e] : e \in CsvErrors}
    \cup {[df |-> WeatherTable(l, rows)] :
            l \in WeatherLayouts, rows \in SeqsUpTo(WeatherRows, MaxWRows)}

\* messages a caller passes to extract_measurement
CallerMessages == SeqsUpTo(Alphabet, MaxMsgLen)

\* -------------------------------------- the WeatherDataProcessor's caller

WEntry(op, args, out) ==
    [op |-> op, args |-> args, before |-> weather_df, exc |-> out.exc,
     result |-> out.result]

WeatherEffect(op, args, out) ==
    /\ weather_df' = out.df
    /\ werr' = out.exc
    /\ winner' = out.inner
    /\ whist' = <<WEntry(op, args, out)>>
    /\ UNCHANGED <<patterns, fieldVars>>

\* a method called directly: an exception ends the caller, and so does the
\* call numbered last
WeatherCall(op, args, out, last) ==
    /\ wpc = "idle"
    /\ wcalls < MaxWCalls
    /\ wcalls' = IF last THEN MaxWCalls ELSE wcalls + 1
    /\ wpc' = IF out.exc = NoError THEN "idle" ELSE "failed"
    /\ WeatherEffect(op, args, out)
    /\ UNCHANGED <<wstep, wlog, wret>>

WeatherLoad ==
    /\ wcalls = 0
    /\ UNCHANGED means
    /\ \E csv \in WeatherCsvOutcomes :
          WeatherCall("weather_station_mapping", <<csv>>,
                      Weather_weather_station_mapping(csv), FALSE)

WeatherExtract ==
    /\ wcalls = 0
    /\ UNCHANGED means
    /\ \E msg \in CallerMessages :
          LET r == Weather_extract_measurement(msg)
          IN  WeatherCall("extract_measurement", <<msg>>,
                          WOutcome(weather_df, r.exc, r.inner, r.val), TRUE)

WeatherProcessMessages ==
    /\ UNCHANGED means
    /\ WeatherCall("process_messages", <<>>, Weather_process_messages, FALSE)

WeatherCalculateMeans ==
    /\ means' = Weather_calculate_means.result
    /\ WeatherCall("calculate_means", <<>>, Weather_calculate_means, FALSE)

\* process() is entered
WeatherProcessCall ==
    /\ wpc = "idle"
    /\ wcalls = 0
    /\ wcalls' = MaxWCalls
    /\ wpc' = "process"
    /\ wstep' = 1
    /\ wlog' = <<>>
    /\ wret' = None
    /\ UNCHANGED <<patterns, weather_df, werr, winner, whist, means, fieldVars>>

\* one statement of process(): an exception leaves process() at once
WeatherProcessDo(op, args, out) ==
    /\ wlog' = Append(wlog, op)
    /\ wstep' = wstep + 1
    /\ wpc' = IF out.exc = NoError THEN "process" ELSE "failed"
    /\ WeatherEffect(op, args, out)
    /\ UNCHANGED <<wret, wcalls, means>>

WeatherProcessStep ==
    /\ wpc = "process"
    /\ wstep <= Len(WeatherProcessSteps)
    /\ LET op == WeatherProcessSteps[wstep]
       IN  \/ /\ op = "weather_station_mapping"
              /\ \E csv \in WeatherCsvOutcomes :
                    WeatherProcessDo(op, <<csv>>,
                                     Weather_weather_station_mapping(csv))
           \/ /\ op = "process_messages"
              /\ WeatherProcessDo(op, <<>>, Weather_process_messages)

\* return self.weather_df
WeatherProcessReturn ==
    /\ wpc = "process"
    /\ wstep = Len(WeatherProcessSteps) + 1
    /\ wret' = weather_df
    /\ wpc' = "idle"
    /\ UNCHANGED <<patterns, weather_df, wstep, werr, winner, wlog, wcalls,
                   whist, means, fieldVars>>

FieldParked ==
    /\ columns_to_rename = <<"Annual_yield", "Crop_type">>
    /\ values_to_rename = <<>>
    /\ df = None
    /\ engine = None
    /\ pc = "idle"
    /\ pstep = 0
    /\ err = NoError
    /\ inner = NoError
    /\ plog = <<>>
    /\ ret = None
    /\ calls = 0
    /\ hist = <<>>

\* WeatherDataProcessor.__init__
WeatherInit ==
    /\ patterns \in PatternConfigs
    /\ weather_df = None
    /\ wpc = "idle"
    /\ wstep = 0
    /\ werr = NoError
    /\ winner = NoError
    /\ wlog = <<>>
    /\ wret = None
    /\ wcalls = 0
    /\ whist = <<>>
    /\ means = None
    /\ FieldParked

WeatherNext ==
    \/ WeatherLoad
    \/ WeatherExtract
    \/ WeatherProcessMessages
    \/ WeatherCalculateMeans
    \/ WeatherProcessCall
    \/ WeatherProcessStep
    \/ WeatherProcessReturn

WeatherSpec == WeatherInit /\ [][WeatherNext]_vars

\* ------------------------------------------------- FieldDataProcessor claims

Last == hist[Len(hist)]
Prev == hist[Len(hist) - 1]
SwapA == columns_to_rename[1]
SwapB == columns_to_rename[2]
\* the last invocation was op, on a loaded DataFrame
LastWas(op) == Len(hist) >= 1 /\ Last.op = op /\ Last.before # None
\* the last two invocations were op, the first of them on a loaded DataFrame
LastTwoWere(op) ==
    /\ Len(hist) = 2
    /\ Last.op = op
    /\ Prev.op = op
    /\ Prev.before # None
\* the label the swap gives to a column labelled l
Swapped(l) == IF l = SwapA THEN SwapB ELSE IF l = SwapB THEN SwapA ELSE l

\* C1: on a DataFrame that has both configured columns (whatever other
\* columns it has, placeholder-named ones included), rename_columns returns
\* normally, moves no data, gives label B to the column labelled A and label
\* A to the column labelled B and keeps every other label; two calls in a
\* row restore the DataFrame.
C1_SwapInvolution ==
    /\ (LastWas("rename_columns")
        /\ HasColumn(Last.before, SwapA) /\ HasColumn(Last.before, SwapB))
       => /\ Last.exc = NoError
          /\ df.data = Last.before.data
          /\ Len(df.columns) = Len(Last.before.columns)
          /\ \A j \in 1..Len(df.columns) :
                df.columns[j] = Swapped(Last.before.columns[j])
    /\ (LastTwoWere("rename_columns")
        /\ HasColumn(Prev.before, SwapA) /\ HasColumn(Prev.before, SwapB))
       => df = Prev.before

\* C1 witness: two swaps in a row have run on a DataFrame that has both
\* configured columns and a column named like the placeholder.
C1_Witness ==
    /\ LastTwoWere("rename_columns")
    /\ HasColumn(Prev.before, SwapA) /\ HasColumn(Prev.before, SwapB)
    /\ SwapA # SwapB
    /\ HasColumn(Prev.before, TempBase)
    /\ Last.before # Prev.before
    /\ df = Prev.before

\* C2: when a configured column is absent, rename_columns raises and
\* relabels nothing.
C2_MissingColumnRaises ==
    (LastWas("rename_columns")
     /\ (~HasColumn(Last.before, SwapA) \/ ~HasColumn(Last.before, SwapB)))
    => (Last.exc # NoError /\ df = Last.before)

\* the mapping DataFrame the last weather_station_mapping call fetched
LastMapping == Last.args[1].df
LastJoined ==
    /\ LastWas("weather_station_mapping")
    /\ Last.exc = NoError
FieldKeys(d) == Column(d, "Field_ID")
\* the rows of the mapping that carry the key of row i of d
MappingRowsOf(d, i) ==
    {k \in 1..NRows(LastMapping) : FieldKeys(LastMapping)[k] = FieldKeys(d)[i]}
MatchedRows(d) == {i \in 1..NRows(d) : MappingRowsOf(d, i) # {}}
\* row p of the result is row i of the field data with the station of
\* row k of the mapping
IsJoinOf(p, i, k) ==
    /\ \A j \in 1..Len(Last.before.columns) :
          df.data[j][p] = Last.before.data[j][i]
    /\ Column(df, "Weather_station_ID")[p] =
          Column(LastMapping, "Weather_station_ID")[k]

\* C5 as stated: the join keeps exactly the field rows that have a mapping
\* entry, one result row each, whatever the mapping holds.
C5_RowCountIsMatchedRows ==
    LastJoined => NRows(df) = Cardinality(MatchedRows(Last.before))

\* C5 amended: the join raises nothing for unmatched rows; every result row
\* is a field row together with the station of a mapping row of the same
\* Field_ID; the result holds one row per (field row, mapping row) pair of
\* equal Field_ID; and when no Field_ID occurs twice in the mapping, that is
\* the number of field rows that have a mapping entry.
C5_InnerJoin ==
    LastJoined =>
        /\ \A p \in 1..NRows(df) :
              \E i \in MatchedRows(Last.before) :
                 \E k \in MappingRowsOf(Last.before, i) : IsJoinOf(p, i, k)
        /\ \A i \in MatchedRows(Last.before) :
              \A k \in MappingRowsOf(Last.before, i) :
                 \E p \in 1..NRows(df) : IsJoinOf(p, i, k)
        /\ NRows(df) =
              SumSeq([i \in 1..NRows(Last.before) |->
                         Cardinality(MappingRowsOf(Last.before, i))])
        /\ (\A k1, k2 \in 1..NRows(LastMapping) :
               FieldKeys(LastMapping)[k1] = FieldKeys(LastMapping)[k2] => k1 = k2)
           => NRows(df) = Cardinality(MatchedRows(Last.before))

\* C5 witness: a join has dropped a field row without a mapping entry and
\* kept another.
C5_Witness ==
    /\ LastJoined
    /\ NRows(Last.before) = 2
    /\ Cardinality(MatchedRows(Last.before)) = 1
    /\ NRows(df) = 1

\* the arguments of the last apply_corrections call, by position
LastColumnName == Last.args[1]
LastAbsColumn == Last.args[2]
AllNumeric(cells) == \A i \in 1..Len(cells) : IsNum(cells[i])
Magnitude(c) == IF c.num < 0 THEN Num(-c.num) ELSE c
Mapped(c) == IF \E q \in 1..Len(values_to_rename) : values_to_rename[q][1] = c
             THEN (CHOOSE pr \in {values_to_rename[q] : q \in 1..Len(values_to_rename)} :
                      pr[1] = c)[2]
             ELSE c

\* C6 as stated: called with the elevation column first and the categorical
\* column second, on a DataFrame with a numeric Elevation column and a
\* Crop_type column, apply_corrections makes Elevation absolute, maps
\* Crop_type and changes nothing else.
C6_ElevationFirst ==
    (/\ LastWas("apply_corrections")
     /\ Last.args = <<"Elevation", "Crop_type">>
     /\ HasColumn(Last.before, "Elevation")
     /\ HasColumn(Last.before, "Crop_type")
     /\ AllNumeric(Column(Last.before, "Elevation")))
    => /\ Last.exc = NoError
       /\ df.columns = Last.before.columns
       /\ \A i \in 1..NRows(df) :
             /\ Column(df, "Elevation")[i] =
                   Magnitude(Column(Last.before, "Elevation")[i])
             /\ Column(df, "Crop_type")[i] =
                   Mapped(Column(Last.before, "Crop_type")[i])

\* C6 amended: the first positional argument names the categorical column
\* and the second the elevation column.  When both columns exist and the
\* second is numeric, the call returns normally, every value of the second
\* is replaced by its absolute value, every value v of the first by map[v]
\* when v is a key of values_to_rename and by v otherwise, labels, row count
\* and all other columns are unchanged; and a second call with the same
\* arguments leaves the elevation column as the first left it.
C6_Corrections ==
    /\ (/\ LastWas("apply_corrections")
        /\ LastColumnName # LastAbsColumn
        /\ HasColumn(Last.before, LastColumnName)
        /\ HasColumn(Last.before, LastAbsColumn)
        /\ AllNumeric(Column(Last.before, LastAbsColumn)))
       => /\ Last.exc = NoError
          /\ df.columns = Last.before.columns
          /\ NRows(df) = NRows(Last.before)
          /\ \A j \in 1..Len(df.columns) :
                \A i \in 1..NRows(df) :
                   df.data[j][i] =
                      IF j = ColumnIndex(df, LastAbsColumn)
                      THEN Magnitude(Last.before.data[j][i])
                      ELSE IF j = ColumnIndex(df, LastColumnName)
                      THEN Mapped(Last.before.data[j][i])
                      ELSE Last.before.data[j][i]
    /\ (/\ LastTwoWere("apply_corrections")
        /\ Last.args = Prev.args
        /\ Prev.exc = NoError
        /\ Last.exc = NoError)
       => Column(df, LastAbsColumn) = Column(Last.before, LastAbsColumn)

\* C6 witness: apply_corrections('Crop_type', 'Elevation') has run twice on
\* a DataFrame with a negative elevation and a crop type the map renames;
\* the first call changed both, the second left the elevation alone.
C6_Witness ==
    /\ LastTwoWere("apply_corrections")
    /\ Last.args = <<"Crop_type", "Elevation">>
    /\ Prev.args = Last.args
    /\ Prev.exc = NoError
    /\ Last.exc = NoError
    /\ HasColumn(Prev.before, "Elevation")
    /\ HasColumn(Prev.before, "Crop_type")
    /\ Column(Prev.before, "Elevation") # Column(Last.before, "Elevation")
    /\ Column(Prev.before, "Crop_type") # Column(Last.before, "Crop_type")
    /\ Column(df, "Elevation") = Column(Last.before, "Elevation")

\* C9: the exception that reaches the caller of a FieldDataProcessor method
\* is the exception the data_ingestion function's own code raised.
C9_PropagatesUnmodified ==
    inner # NoError => err = inner

\* the order process() is documented to run its steps in
FixedOrder ==
    << "ingest_sql_data", "rename_columns", "apply_corrections",
       "weather_station_mapping" >>
InProcess == pc = "process" \/ plog # <<>>

\* C10: in a process() call the methods run are, at every moment, the first
\* steps of ingest, swap, corrections, join, once each; a failed step is the
\* last one and process() returns nothing; process() returns only after all
\* four succeeded, and returns the DataFrame the join produced.
C10_FixedOrder ==
    InProcess =>
        /\ Len(plog) <= Len(FixedOrder)
        /\ plog = SubSeq(FixedOrder, 1, Len(plog))
        /\ pc = "process" => (pstep = Len(plog) + 1 /\ err = NoError /\ ret = None)
        /\ pc = "failed" =>
              /\ ret = None
              /\ plog # <<>>
              /\ Last.op = plog[Len(plog)]
              /\ Last.exc = err
              /\ err # NoError
              /\ ~ENABLED FieldNext
        /\ pc = "idle" =>
              /\ plog = FixedOrder
              /\ err = NoError
              /\ ret = df
              /\ Last.op = "weather_station_mapping"
              /\ Last.exc = NoError
              /\ ret = DataFrameMerge(Last.before, LastMapping, "Field_ID")

\* C10 witness: process() has returned a DataFrame with rows, after a swap
\* that had both columns to swap.
C10_Witness ==
    /\ plog = FixedOrder
    /\ pc = "idle"
    /\ ret # None
    /\ NRows(ret) = 2
    /\ HasColumn(ret, "Weather_station_ID")

\* ----------------------------------------------- WeatherDataProcessor claims

LastW == whist[1]
LastWWas(op) == whist # <<>> /\ LastW.op = op

\* alternative a of pattern p matches msg at position i with k digits captured
MatchOf(p, msg, i, a, k) ==
    /\ k >= p.alts[a].min
    /\ i + k <= Len(msg)
    /\ \A t \in i..(i + k - 1) : msg[t] \in Digits
    /\ msg[i + k] = p.alts[a].unit
PatternMatches(p, msg) ==
    \E i \in 1..Len(msg), a \in 1..Len(p.alts), k \in 0..Len(msg) :
        MatchOf(p, msg, i, a, k)
\* the match re.search reports: no match starts further left, and no
\* earlier alternative matches at the same place
IsLeftmost(p, msg, i, a) ==
    /\ \A i2 \in 1..(i - 1), a2 \in 1..Len(p.alts), k2 \in 0..Len(msg) :
          ~MatchOf(p, msg, i2, a2, k2)
    /\ \A a2 \in 1..(a - 1), k2 \in 0..Len(msg) : ~MatchOf(p, msg, i, a2, k2)
\* the number a text of digits denotes, read from the left
RECURSIVE Horner(_, _)
Horner(text, acc) ==
    IF text = <<>> THEN acc
    ELSE Horner(Tail(text), 10 * acc + DigitValue(Head(text)))

\* C3: extract_measurement(message) returns (None, None), raising nothing,
\* when no pattern matches; otherwise its label is that of the first pattern
\* in configuration order that matches, and its value is the number read
\* from the text that pattern's leftmost match captured (ValueError when
\* that text is empty).
C3_FirstPatternWins ==
    LastWWas("extract_measurement") =>
        LET msg == LastW.args[1]
            hits == {q \in 1..Len(patterns) : PatternMatches(patterns[q], msg)}
        IN  IF hits = {}
            THEN LastW.exc = NoError /\ LastW.result = <<None, None>>
            ELSE LET q == CHOOSE q \in hits : \A q2 \in hits : q <= q2
                     p == patterns[q]
                 IN  \E i \in 1..Len(msg), a \in 1..Len(p.alts), k \in 0..Len(msg) :
                        /\ MatchOf(p, msg, i, a, k)
                        /\ IsLeftmost(p, msg, i, a)
                        /\ IF k = 0
                           THEN LastW.exc = "ValueError"
                           ELSE /\ LastW.exc = NoError
                                /\ LastW.result =
                                     <<Str(p.label),
                                       Num(Horner(SubSeq(msg, i, i + k - 1), 0))>>

\* C3 witness: a message two patterns match has been extracted, and the
\* label returned is the first pattern's while the second pattern reads
\* another number.
C3_Witness ==
    /\ LastWWas("extract_measurement")
    /\ LastW.exc = NoError
    /\ Len(patterns) = 2
    /\ PatternMatches(patterns[1], LastW.args[1])
    /\ PatternMatches(patterns[2], LastW.args[1])
    /\ LastW.result[1] = Str(patterns[1].label)
    /\ LastW.args[1] = <<"1", "C", "2", "m">>
    /\ LastW.result[2] = Num(IF patterns[1].label = "Rainfall" THEN 2 ELSE 1)

\* the rows of d with station s and measurement label l
RowsWith(d, s, l) ==
    {i \in 1..NRows(d) :
        Column(d, "Weather_station_ID")[i] = s /\ Column(d, "Measurement")[i] = l}
\* the (station, label) pairs of the rows with a label
PairsPresent(d) ==
    {<<Column(d, "Weather_station_ID")[i], Column(d, "Measurement")[i]>> :
        i \in {r \in 1..NRows(d) : Column(d, "Measurement")[r] # Null}}
ValueSum(d, rows) ==
    SumSeq([i \in 1..NRows(d) |->
               IF i \in rows THEN Column(d, "Value")[i].num ELSE 0])

\* C4: calculate_means on processed rows returns a table whose rows are the
\* stations and whose columns are the labels of the labelled rows; the cell
\* of each (station, label) pair that occurs is the arithmetic mean of the
\* values of exactly the rows with that station and label; rows with a null
\* label enter no mean, and null is no column and no row of the table.
C4_GroupMeans ==
    (LastWWas("calculate_means") /\ LastW.exc = NoError /\ LastW.before # None)
    => LET d == LastW.before
           present == PairsPresent(d)
       IN  /\ means = LastW.result
           /\ weather_df = d
           /\ means.index = {k[1] : k \in present}
           /\ means.columns = {k[2] : k \in present}
           /\ Null \notin means.columns
           /\ Null \notin means.index
           /\ \A k \in means.index \X means.columns :
                 IF k \in present
                 THEN /\ means.cell[k].over > 0
                      /\ means.cell[k].mean * Cardinality(RowsWith(d, k[1], k[2]))
                            = means.cell[k].over * ValueSum(d, RowsWith(d, k[1], k[2]))
                 ELSE means.cell[k] = Null

\* C4 witness: the means of station S1 have been computed over rainfall
\* rows of 10 and 20 and a row without a label, and the rainfall mean is 15.
C4_Witness ==
    /\ LastWWas("calculate_means")
    /\ LastW.exc = NoError
    /\ LastW.before # None
    /\ NRows(weather_df) = 3
    /\ \E i \in 1..3 : Column(weather_df, "Measurement")[i] = Null
    /\ \E i \in 1..3 : Column(weather_df, "Value")[i] = Num(10)
    /\ \E i \in 1..3 : Column(weather_df, "Value")[i] = Num(20)
    /\ means.index = {Str("S1")}
    /\ means.columns = {Str("Rainfall")}
    /\ means.cell[<<Str("S1"), Str("Rainfall")>>] = [mean |-> 15, over |-> 1]

\* extract_measurement returns for every message of DataFrame d
AllExtractable(d) ==
    \A i \in 1..NRows(d) :
        Weather_extract_measurement(Column(d, "Message")[i]).exc = NoError

\* C7: on every loaded DataFrame with a Message column whose messages all
\* extract, process_messages returns normally, keeps the rows and their
\* order, and adds the columns Measurement and Value, row i holding
\* extract_measurement of message i (null, null when no pattern matches).
C7_RowForRow ==
    (/\ LastWWas("process_messages")
     /\ LastW.before # None
     /\ HasColumn(LastW.before, "Message")
     /\ AllExtractable(LastW.before))
    => /\ LastW.exc = NoError
       /\ HasColumn(weather_df, "Measurement")
       /\ HasColumn(weather_df, "Value")
       /\ NRows(weather_df) = NRows(LastW.before)
       /\ \A j \in 1..Len(LastW.before.columns) :
             /\ weather_df.columns[j] = LastW.before.columns[j]
             /\ weather_df.data[j] = LastW.before.data[j]
       /\ \A i \in 1..NRows(weather_df) :
             LET r == Weather_extract_measurement(Column(LastW.before, "Message")[i]).val
             IN  /\ Column(weather_df, "Measurement")[i] = CellOf(r[1])
                 /\ Column(weather_df, "Value")[i] = CellOf(r[2])

\* the DataFrame the last weather_station_mapping call fetched
LastFetched == LastW.args[1]
FetchedNoRows ==
    /\ LastWWas("weather_station_mapping")
    /\ "df" \in DOMAIN LastFetched
    /\ NRows(LastFetched.df) = 0

\* C8: when the fetch succeeds with zero rows, weather_station_mapping
\* raises and does not set weather_df to the empty DataFrame; so
\* process_messages never runs on a DataFrame of zero rows.
C8_EmptyLoadRaises ==
    /\ FetchedNoRows => (LastW.exc # NoError /\ weather_df = LastW.before)
    /\ ~(/\ LastWWas("process_messages")
         /\ LastW.before # None
         /\ NRows(LastW.before) = 0)

====
